---- MODULE Spec2Model ----
(***************************************************************************)
(* Model of scripts/desktop_probe.py: main() is one sequential procedure.  *)
(* Each action below is one block of main(), in source order; pc is the    *)
(* position of the run.  Every call into pywinauto / the file system is an *)
(* observation of the environment: its result (a value or an exception)    *)
(* is drawn with \E from the outcomes the call can have.                   *)
(***************************************************************************)
EXTENDS Integers, Sequences, FiniteSets, TLC

\* ---- bounds of the model ------------------------------------------------
MaxDesc == 2           \* controls in the window
MaxActions == 1        \* entries of the "actions" list
MaxAbsControls == 1    \* |--max-controls| ranges over -MaxAbsControls..MaxAbsControls

\* ---- exit statuses ------------------------------------------------------
Running == -1                 \* the process has not exited
ExitOk == 0                   \* falls off the end of main()
ExitUncaught == 1             \* an exception propagated out of main()
ExitNoPywinauto == 2
ExitWindowNotFound == 3
ExitScreenshotFailed == 4

\* ---- data ---------------------------------------------------------------
Min(a, b) == IF a < b THEN a ELSE b
Max(a, b) == IF a > b THEN a ELSE b

BoundedSeq(S, n) == UNION { [1..k -> S] : k \in 0..n }

\* The controls a window can hold.  A control is its element_info:
\* automation_id, name, control_type and rectangle.
Controls ==
    { [automation_id |-> "a", name |-> "OK", control_type |-> "Button", rectangle |-> 1],
      [automation_id |-> "b", name |-> "In", control_type |-> "Edit", rectangle |-> 0] }

\* Values of window.rectangle()
Rects == {0, 1}

\* One entry of the actions list.  dict = FALSE is an entry that is not a
\* JSON object; the other fields are what action.get(...) returns.
Act(t, id, nm, ct, ix, tx) ==
    [dict |-> TRUE, type |-> t, automation_id |-> id, name |-> nm,
     control_type |-> ct, index |-> ix, text |-> tx]

\* an entry that is not a JSON object (a number, a character of a string, ...)
NonDict == [Act("", "", "", "", 0, "") EXCEPT !.dict = FALSE]

ActionSet ==
    { Act("click", "", "", "", 0, ""),
      Act("click_control", "", "", "Edit", 7, ""),
      Act("click_control", "z", "", "", 0, ""),
      Act("type_text", "", "", "", 0, "hi"),
      Act("keypress", "", "", "", 0, "{ENTER}"),
      Act("scroll", "", "", "", 0, ""),
      NonDict }

\* What --actions-json can be when main() reads it.
ActionsInputs ==
    { "no_flag", "missing", "unreadable", "invalid_json", "not_object",
      "no_key", "null", "scalar", "string", "list" }

\* os.path.join(out_dir, name)
OutDir == "out"
PathJoin(dir, name) == <<dir, name>>

\* descendants[:n] with Python's slice semantics
PySlice(s, n) ==
    IF n >= 0 THEN SubSeq(s, 1, Min(n, Len(s)))
              ELSE SubSeq(s, 1, Max(0, Len(s) + n))

VARIABLES
    pc,            \* position in main()
    status,        \* exit status, Running until the process exits
    exc,           \* the call whose exception propagated out of main(), or "none"
    args,          \* parsed command line
    app,           \* the Application object: "unconnected", "connected", "started"
    window,        \* the variable window: "None" or "Spec" (a window specification)
    startCalled,   \* Application.start was called
    reuseFound,    \* the reuse step kept a visible window
    attachFound,   \* the attach step kept a visible window
    sawExists,     \* a lookup before the deadline observed exists()
    sawVisible,    \* a lookup before the deadline observed exists() and is_visible()
    actionsInput,  \* state of the --actions-json input when read
    actions,       \* the variable actions as the loop of line 143 reads it:
                   \* whether it is iterable, its length, and the entries the
                   \* loop's iterator has not yet yielded
    idx,           \* number of entries the replay loop has processed
    inputs,        \* input events synthesized (clicks, key sequences)
    winRect,       \* what window.rectangle() returned at line 111
    rect,          \* the variable rect
    ui,            \* the controls actually in the window
    descendants,   \* the variable descendants
    controls,      \* the variable controls
    enumFailed,    \* window.descendants() raised
    shotFailed,    \* capture_as_image() or save() raised
    files,         \* paths written in this run
    payload,       \* the JSON document written, or NoPayload
    killCalled     \* app.kill() was called

vars == << pc, status, exc, args, app, window, startCalled, reuseFound,
           attachFound, sawExists, sawVisible, actionsInput,
           actions, idx, inputs, winRect, rect, ui, descendants, controls, enumFailed,
           shotFailed, files, payload, killCalled >>

\* value of a variable that has not been assigned
Unset == -1

NoPayload ==
    [written |-> FALSE, window_rect |-> Unset, control_count |-> 0,
     controls |-> << >>, screenshot |-> << >>]

Args ==
    [ app : {"", "app.exe"},
      max_controls : (0 - MaxAbsControls)..MaxAbsControls,
      close : BOOLEAN,
      reuse : BOOLEAN,
      attach_only : BOOLEAN ]

Init ==
    /\ pc = "setup"
    /\ status = Running
    /\ exc = "none"
    /\ args \in Args
    /\ app = "unconnected"
    /\ window = "None"
    /\ startCalled = FALSE
    /\ reuseFound = FALSE
    /\ attachFound = FALSE
    /\ sawExists = FALSE
    /\ sawVisible = FALSE
    /\ actionsInput = "unread"
    /\ actions = [iterable |-> TRUE, len |-> 0, rest |-> << >>]
    /\ idx = 0
    /\ inputs = 0
    /\ winRect = Unset
    /\ rect = Unset
    /\ ui = << >>
    /\ descendants = << >>
    /\ controls = << >>
    /\ enumFailed = FALSE
    /\ shotFailed = FALSE
    /\ files = {}
    /\ payload = NoPayload
    /\ killCalled = FALSE

\* sys.exit(code)
Exit(code) ==
    /\ status' = code
    /\ pc' = "exited"

\* an exception leaves main(): traceback, exit status 1
Uncaught(site) ==
    /\ exc' = site
    /\ Exit(ExitUncaught)

Goto(label) ==
    /\ pc' = label
    /\ status' = status

\* the variables of replay and capture, untouched until line 102
captured == << actionsInput, actions, idx, inputs, winRect, rect, ui,
               descendants, controls, enumFailed, shotFailed, files, payload,
               killCalled >>

\* ---- environment observations -------------------------------------------
\* Outcome of looking a window up (app.window(title_re=...) when a title is
\* given, app.top_window() otherwise: both have the same outcomes) and
\* asking exists() / is_visible(): the lookup raises, the window does not
\* exist, it exists but is not visible, or it exists and is visible.
Obs == {"raise", "absent", "hidden", "visible"}

\* A lookup through an Application that is bound to no process raises.
AppObs == IF app = "unconnected" THEN {"raise"} ELSE Obs

\* ---- lines 24-38: import pywinauto, create the output directory ---------
Setup ==
    /\ pc = "setup"
    /\ \/ Exit(ExitNoPywinauto) /\ exc' = exc
       \/ Uncaught("makedirs")
       \/ Goto("connect") /\ exc' = exc
    /\ UNCHANGED << args, app, window, startCalled, reuseFound, attachFound,
                    sawExists, sawVisible, captured >>

\* ---- lines 40-44: connect to a running instance by path -----------------
Connect ==
    /\ pc = "connect"
    /\ IF args.reuse /\ args.app # ""
         THEN \E found \in BOOLEAN :
                app' = IF found THEN "connected" ELSE "unconnected"
         ELSE app' = app
    /\ Goto("reuse")
    /\ UNCHANGED << exc, args, window, startCalled, reuseFound, attachFound,
                    sawExists, sawVisible, captured >>

\* ---- lines 46-56: reuse a visible window of the connected application ---
Reuse ==
    /\ pc = "reuse"
    /\ IF window = "None" /\ args.reuse
         THEN \E o \in AppObs :
                /\ window' = IF o = "visible" THEN "Spec" ELSE "None"
                /\ reuseFound' = (o = "visible")
                /\ sawExists' = (o \in {"hidden", "visible"})
                /\ sawVisible' = (o = "visible")
         ELSE UNCHANGED << window, reuseFound, sawExists, sawVisible >>
    /\ Goto("attach")
    /\ UNCHANGED << exc, args, app, startCalled, attachFound, captured >>

\* ---- lines 58-71: attach to a visible window anywhere on the desktop ----
Attach ==
    /\ pc = "attach"
    /\ IF window = "None" /\ args.attach_only
         THEN \E o \in Obs, connectOk \in BOOLEAN :
                LET kept == o = "visible" /\ connectOk IN
                /\ window' = IF kept THEN "Spec" ELSE "None"
                /\ app' = IF kept THEN "connected" ELSE app
                /\ attachFound' = kept
                /\ sawExists' = (sawExists \/ o \in {"hidden", "visible"})
                /\ sawVisible' = (sawVisible \/ o = "visible")
         ELSE UNCHANGED << window, app, attachFound, sawExists, sawVisible >>
    /\ Goto("start")
    /\ UNCHANGED << exc, args, startCalled, reuseFound, captured >>

\* ---- lines 73-75: launch a new process ----------------------------------
\* ShouldStart without its test of window: a launch although a window was kept
ShouldStartIgnoringWindow == ~args.attach_only

\* line 73: the condition under which Application.start is called
ShouldStart == window = "None" /\ ~args.attach_only

StartApp ==
    /\ pc = "start"
    /\ IF ShouldStart
         THEN /\ startCalled' = TRUE
              \* line 75 is unguarded; with no --app the command line is
              \* empty and no process can be created
              /\ \/ args.app # "" /\ app' = "started" /\ Goto("poll") /\ exc' = exc
                 \/ app' = "unconnected" /\ Uncaught("start")
         ELSE /\ Goto("poll")
              /\ UNCHANGED << startCalled, app, exc >>
    /\ UNCHANGED << args, window, reuseFound, attachFound, sawExists, sawVisible,
                    captured >>

\* ---- lines 77-88: poll until a visible window or the deadline -----------
\* One iteration of the loop body: time.time() < deadline held.
Poll ==
    /\ pc = "poll"
    /\ \E o \in AppObs :
         /\ window' = IF o = "raise" THEN "None" ELSE "Spec"
         /\ sawExists' = (sawExists \/ o \in {"hidden", "visible"})
         /\ sawVisible' = (sawVisible \/ o = "visible")
         /\ IF o = "visible" THEN Goto("check") ELSE Goto("poll")
    /\ UNCHANGED << exc, args, app, startCalled, reuseFound, attachFound, captured >>

\* The loop condition fails: the deadline has passed (at once when
\* --timeout-ms is not positive).
PollDeadline ==
    /\ pc = "poll"
    /\ Goto("check")
    /\ UNCHANGED << exc, args, app, window, startCalled, reuseFound, attachFound,
                    sawExists, sawVisible, captured >>

\* ---- lines 90-92: the window-not-found exit -----------------------------
\* line 90: what lets the run go on, given the result of window.exists()
WindowAccepted(exists) == window # "None" /\ exists

CheckWindow ==
    /\ pc = "check"
    /\ \E exists \in BOOLEAN :
         IF WindowAccepted(exists)
           THEN Goto("focus")
           ELSE Exit(ExitWindowNotFound)
    /\ UNCHANGED << exc, args, app, window, startCalled, reuseFound, attachFound,
                    sawExists, sawVisible, captured >>

\* ---- lines 94-100: focus the window (errors ignored), settle ------------
Focus ==
    /\ pc = "focus"
    /\ Goto("load")
    /\ UNCHANGED << exc, args, app, window, startCalled, reuseFound, attachFound,
                    sawExists, sawVisible, captured >>

\* the variables of window acquisition, settled once line 92 is passed
acquired == << app, window, startCalled, reuseFound, attachFound, sawExists,
               sawVisible >>

\* ---- lines 102-109: read the actions file -------------------------------
List(items) == [iterable |-> TRUE, len |-> Len(items), rest |-> items]

\* The values `actions` can take for each state of the input.
LoadActions(input) ==
    CASE input \in {"no_flag", "missing"} -> { List(<< >>) }       \* line 103 false
      [] input \in {"unreadable", "invalid_json"} -> { List(<< >>) } \* line 109
      [] input = "not_object" -> { List(<< >>) }                   \* line 107, else
      [] input = "no_key" -> { List(<< >>) }                       \* .get default
      [] input \in {"null", "scalar"} ->
            { [iterable |-> FALSE, len |-> 0, rest |-> << >>] }   \* .get returns it
      [] input = "string" ->
            { List(s) : s \in BoundedSeq({NonDict}, MaxActions) }
      [] input = "list" ->
            { List(s) : s \in BoundedSeq(ActionSet, MaxActions) }

Load ==
    /\ pc = "load"
    /\ \E input \in ActionsInputs :
         /\ actionsInput' = input
         /\ actions' \in LoadActions(input)
    /\ Goto("rect")
    /\ UNCHANGED << exc, args, acquired, idx, inputs, winRect, rect, ui,
                    descendants, controls, enumFailed, shotFailed, files,
                    payload, killCalled >>

\* ---- line 111: rect = window.rectangle() --------------------------------
ReadRect ==
    /\ pc = "rect"
    /\ \/ \E r \in Rects :
            /\ winRect' = r
            /\ rect' = r
            /\ Goto("enumerate")
            /\ exc' = exc
       \/ /\ Uncaught("rectangle")
          /\ UNCHANGED << winRect, rect >>
    /\ UNCHANGED << args, acquired, actionsInput, actions, idx, inputs, ui,
                    descendants, controls, enumFailed, shotFailed, files,
                    payload, killCalled >>

\* ---- lines 112-116: descendants = window.descendants() ------------------
Enumerate ==
    /\ pc = "enumerate"
    /\ \E cs \in BoundedSeq(Controls, MaxDesc) :
         /\ ui' = cs
         /\ \/ descendants' = cs /\ enumFailed' = FALSE
            \/ descendants' = << >> /\ enumFailed' = TRUE
    /\ Goto("replay")
    /\ UNCHANGED << exc, args, acquired, actionsInput, actions, idx, inputs,
                    winRect, rect, controls, shotFailed, files, payload,
                    killCalled >>

\* ---- lines 118-141: find_control ----------------------------------------
Indices(n) == [i \in 1..n |-> i]

\* lines 124-132: positions in descendants of the controls that match
Matches(action, ds) ==
    SelectSeq(Indices(Len(ds)),
              LAMBDA i :
                /\ (action.automation_id # "" =>
                        ds[i].automation_id = action.automation_id)
                /\ (action.name # "" => ds[i].name = action.name)
                /\ (action.control_type # "" =>
                        ds[i].control_type = action.control_type))

\* The position in descendants of the control returned, 0 for None.
find_control(action, ds) ==
    LET matches == Matches(action, ds)
        i == IF action.index < 0 \/ action.index >= Len(matches)
               THEN 0 ELSE action.index
    IN  IF matches = << >> THEN 0 ELSE matches[i + 1]

\* ---- lines 143-193: replay the actions ----------------------------------
\* What the window holds after an input event reached it: the same
\* controls, one more, or one fewer.
UiAfter(u) ==
    {u} \cup (IF Len(u) < MaxDesc THEN { Append(u, c) : c \in Controls } ELSE {})
        \cup (IF Len(u) > 0 THEN { SubSeq(u, 1, Len(u) - 1) } ELSE {})

\* A guarded input call and its guarded fallback (lines 154-162, 166-173):
\* the event is delivered by the first call, by the fallback, or not at
\* all; no outcome raises.
Click ==
    \E delivered \in {"first", "fallback", "none"} :
       IF delivered = "none"
         THEN UNCHANGED << inputs, ui >>
         ELSE inputs' = inputs + 1 /\ ui' \in UiAfter(ui)

\* send_keys inside try/except (lines 177-181, 185-189)
SendKeys ==
    \E delivered \in BOOLEAN :
       IF delivered
         THEN inputs' = inputs + 1 /\ ui' \in UiAfter(ui)
         ELSE UNCHANGED << inputs, ui >>

\* line 143: `for action in actions` over a value that is not iterable
ReplayNotIterable ==
    /\ pc = "replay"
    /\ ~actions.iterable
    /\ Uncaught("iterate_actions")
    /\ UNCHANGED << args, acquired, actionsInput, actions, idx, inputs,
                    winRect, rect, ui, descendants, controls, enumFailed,
                    shotFailed, files, payload, killCalled >>

\* find_control reads control.element_info and its attributes outside any
\* try block (line 164 calls it unguarded): a read can raise when there is
\* a descendant to read.
FindControlCanRaise == Len(descendants) > 0

\* One iteration of the loop body, on the next entry of the iterator.
ReplayStep ==
    /\ pc = "replay"
    /\ actions.iterable
    /\ actions.rest # << >>
    /\ actions' = [actions EXCEPT !.rest = Tail(@)]
    /\ LET action == Head(actions.rest) IN
         \/ /\ ~action.dict                                  \* line 145
            /\ UNCHANGED << inputs, ui >>
            /\ idx' = idx + 1 /\ Goto("replay") /\ exc' = exc
         \/ /\ action.dict /\ action.type = "click"
            /\ Click
            /\ idx' = idx + 1 /\ Goto("replay") /\ exc' = exc
         \/ /\ action.dict /\ action.type = "click_control"
            /\ \/ /\ FindControlCanRaise
                  /\ Uncaught("find_control")
                  /\ UNCHANGED << idx, inputs, ui >>
               \/ /\ IF find_control(action, descendants) # 0
                       THEN Click
                       ELSE UNCHANGED << inputs, ui >>
                  /\ idx' = idx + 1 /\ Goto("replay") /\ exc' = exc
         \/ /\ action.dict /\ action.type \in {"type_text", "keypress"}
            /\ IF action.text # ""
                 THEN SendKeys
                 ELSE UNCHANGED << inputs, ui >>
            /\ idx' = idx + 1 /\ Goto("replay") /\ exc' = exc
         \/ /\ action.dict
            /\ action.type \notin {"click", "click_control", "type_text", "keypress"}
            /\ UNCHANGED << inputs, ui >>
            /\ idx' = idx + 1 /\ Goto("replay") /\ exc' = exc
    /\ UNCHANGED << args, acquired, actionsInput, winRect, rect,
                    descendants, controls, enumFailed, shotFailed, files,
                    payload, killCalled >>

\* the loop is exhausted
ReplayDone ==
    /\ pc = "replay"
    /\ actions.iterable
    /\ actions.rest = << >>
    /\ Goto("screenshot")
    /\ UNCHANGED << exc, args, acquired, actionsInput, actions, idx, inputs,
                    winRect, rect, ui, descendants, controls, enumFailed,
                    shotFailed, files, payload, killCalled >>

\* ---- lines 195-201: capture and save the screenshot ---------------------
screenshot_path == PathJoin(OutDir, "desktop_1.png")
json_path == PathJoin(OutDir, "desktop_probe.json")

\* ScreenshotFailed as one more best-effort step: the failure is swallowed
\* and the run goes on to the JSON
ScreenshotFailedSwallowed ==
    /\ shotFailed' = TRUE
    /\ Goto("serialize")
    /\ files' = files

\* lines 199-201: what follows a failed capture or save
ScreenshotFailed ==
    /\ shotFailed' = TRUE
    /\ Exit(ExitScreenshotFailed)
    /\ files' = files

Screenshot ==
    /\ pc = "screenshot"
    /\ \/ /\ files' = files \cup {screenshot_path}
          /\ shotFailed' = FALSE
          /\ Goto("serialize")
       \/ ScreenshotFailed
    /\ UNCHANGED << exc, args, acquired, actionsInput, actions, idx, inputs,
                    winRect, rect, ui, descendants, controls, enumFailed,
                    payload, killCalled >>

\* ---- lines 203-221: serialize the first max_controls descendants --------
\* lines 208-221: the record written for one control (class_name, enabled
\* and visible are further reads of the control, not modelled)
Serialized(c) ==
    [name |-> c.name, control_type |-> c.control_type,
     automation_id |-> c.automation_id, rect |-> c.rectangle]

Serialize ==
    /\ pc = "serialize"
    /\ LET taken == PySlice(descendants, args.max_controls) IN
         \/ /\ controls' = [i \in 1..Len(taken) |-> Serialized(taken[i])]
            \* line 207 assigns the loop's rect to the variable rect
            /\ rect' = IF Len(taken) > 0
                         THEN taken[Len(taken)].rectangle ELSE rect
            /\ Goto("write") /\ exc' = exc
         \/ /\ Len(taken) > 0          \* a read of a control raises
            /\ Uncaught("serialize")
            /\ UNCHANGED << controls, rect >>
    /\ UNCHANGED << args, acquired, actionsInput, actions, idx, inputs,
                    winRect, ui, descendants, enumFailed, shotFailed, files,
                    payload, killCalled >>

\* ---- lines 223-241: build the payload and write desktop_probe.json ------
WriteJson ==
    /\ pc = "write"
    /\ \/ /\ payload' = [written |-> TRUE,
                         window_rect |-> rect,
                         control_count |-> Len(descendants),
                         controls |-> controls,
                         screenshot |-> screenshot_path]
          /\ files' = files \cup {json_path}
          /\ Goto("close") /\ exc' = exc
       \/ /\ Uncaught("write")       \* window_text(), open or dump raises
          /\ UNCHANGED << payload, files >>
    /\ UNCHANGED << args, acquired, actionsInput, actions, idx, inputs,
                    winRect, rect, ui, descendants, controls, enumFailed,
                    shotFailed, killCalled >>

\* ---- lines 243-247: terminate the process when --close is set -----------
Close ==
    /\ pc = "close"
    /\ killCalled' = args.close
    /\ Goto("print")
    /\ UNCHANGED << exc, args, acquired, actionsInput, actions, idx, inputs,
                    winRect, rect, ui, descendants, controls, enumFailed,
                    shotFailed, files, payload >>

\* ---- line 249: print the path, return from main() -----------------------
Finish ==
    /\ pc = "print"
    /\ Exit(ExitOk)
    /\ UNCHANGED << exc, args, acquired, actionsInput, actions, idx, inputs,
                    winRect, rect, ui, descendants, controls, enumFailed,
                    shotFailed, files, payload, killCalled >>

Next ==
    \/ Setup
    \/ Connect
    \/ Reuse
    \/ Attach
    \/ StartApp
    \/ Poll
    \/ PollDeadline
    \/ CheckWindow
    \/ Focus
    \/ Load
    \/ ReadRect
    \/ Enumerate
    \/ ReplayNotIterable
    \/ ReplayStep
    \/ ReplayDone
    \/ Screenshot
    \/ Serialize
    \/ WriteJson
    \/ Close
    \/ Finish

Spec == Init /\ [][Next]_vars

\* ---- positions of a run ---------------------------------------------------
\* The run went past the window-not-found exit of lines 90-92.
Proceeded ==
    \/ pc \in {"focus", "load", "rect", "enumerate", "replay", "screenshot",
               "serialize", "write", "close", "print"}
    \/ status \in {ExitOk, ExitScreenshotFailed}
    \/ exc \in {"rectangle", "iterate_actions", "find_control", "serialize",
                "write"}

\* The run left the replay loop of lines 143-193 (normally or not).
LeftReplay ==
    \/ pc \in {"screenshot", "serialize", "write", "close", "print"}
    \/ status \in {ExitOk, ExitScreenshotFailed}
    \/ exc \in {"find_control", "serialize", "write"}

\* ---- C1 -------------------------------------------------------------------
\* C1: for every integer --max-controls, zero and negative included, the
\* written JSON has control_count equal to the number of enumerated
\* descendants and a controls list of length min(control_count,
\* max_controls), so never longer than the configured maximum.  A length
\* being at least 0, a negative maximum is read as a maximum of 0.
C1_ControlsCapped ==
    payload.written =>
        LET cap == Max(0, args.max_controls) IN
        /\ payload.control_count = Len(descendants)
        /\ Len(payload.controls) = Min(payload.control_count, cap)
        /\ Len(payload.controls) <= cap

\* ---- C2 -------------------------------------------------------------------
\* C2: when no lookup made before the deadline finds a matching window, the
\* run does not go past the window-not-found exit: it ends with status 3,
\* and a run that ends with status 3 has written neither file and replayed
\* no action.
C2_NoWindowExits3 ==
    /\ ~sawExists => ~Proceeded
    /\ status = ExitWindowNotFound =>
          files = {} /\ ~payload.written /\ idx = 0 /\ inputs = 0

\* ---- C3 -------------------------------------------------------------------
\* C3: desktop_probe.json is written only after desktop_1.png was saved in
\* the same run; a run that ends with status 0 has written a JSON whose
\* screenshot field names the saved PNG; a run whose capture or save fails
\* ends with status 4 and writes no JSON.
C3_JsonOnlyAfterPng ==
    /\ (payload.written \/ json_path \in files) => screenshot_path \in files
    /\ status = ExitOk =>
          /\ payload.written
          /\ json_path \in files
          /\ payload.screenshot \in files
          /\ payload.screenshot = screenshot_path
    /\ shotFailed =>
          /\ status = ExitScreenshotFailed
          /\ ~payload.written
          /\ json_path \notin files

\* a successful run: both files written, the JSON naming the PNG
C3_Witness ==
    /\ status = ExitOk
    /\ payload.written
    /\ payload.screenshot \in files

\* ---- C4 -------------------------------------------------------------------
\* C4: Application.start is called only if --attach-only is not set and
\* neither the reuse step nor the attach step kept a visible window; a run
\* whose reuse step found a visible window, and a run with --attach-only,
\* never call it.
C4_StartOnlyWhenNothingFound ==
    /\ startCalled => ~args.attach_only /\ ~reuseFound /\ ~attachFound
    /\ (args.reuse /\ reuseFound) => ~startCalled
    /\ args.attach_only => ~startCalled

\* --reuse was given, the reuse step connected but kept no window, and a
\* process was launched
C4_Witness ==
    /\ args.reuse
    /\ args.app # ""
    /\ ~reuseFound
    /\ startCalled
    /\ app = "started"

\* ---- C5 -------------------------------------------------------------------
\* C5: a failure raised by any step of an action, resolving the target of a
\* click_control included, never ends the run: once the replay loop over an
\* action list is left, every entry of the list has been processed.
C5_ReplayFailuresSuppressed ==
    /\ exc # "find_control"
    /\ (actions.iterable /\ LeftReplay) => idx = actions.len

\* ---- C6 -------------------------------------------------------------------
\* C6: when --actions-json is anything but a well-formed action list, the
\* run behaves as with an empty list: no input event is synthesized and the
\* actions input causes no error exit.
C6_MalformedActionsAsEmpty ==
    actionsInput \notin {"unread", "list"} =>
        /\ inputs = 0
        /\ exc # "iterate_actions"

\* ---- C7 -------------------------------------------------------------------
\* C7: with --close set and a process launched or attached, app.kill() has
\* been called by the time the run ends, whatever the exit path.
C7_CloseOnEveryExit ==
    (args.close /\ app # "unconnected" /\ pc = "exited") => killCalled

\* ---- C8 -------------------------------------------------------------------
\* C8: the descendants are enumerated after the replay, so control_count
\* and controls of the written JSON are those of the window as the replayed
\* actions left it.
C8_SnapshotAfterReplay ==
    (payload.written /\ ~enumFailed) =>
        LET taken == PySlice(ui, args.max_controls) IN
        /\ payload.control_count = Len(ui)
        /\ payload.controls = [i \in 1..Len(taken) |-> Serialized(taken[i])]

\* ---- C9 -------------------------------------------------------------------
\* C9: window_rect of the written JSON is the rectangle read from the
\* window, however many controls were serialized.
C9_WindowRectIsWindows ==
    payload.written => payload.window_rect = winRect

\* ---- C10 ------------------------------------------------------------------
\* C10: a run goes past window acquisition only with a window that was
\* observed existing and visible before the deadline: a run that observed
\* the window existing but never visible does not go past the
\* window-not-found exit.
C10_ProceedsOnlyIfSeenVisible ==
    (sawExists /\ Proceeded) => sawVisible

====
